---- MODULE Spec2Model ----
(***************************************************************************)
(* Model of the cheek job scheduler: schedule loading and validation, the  *)
(* tick loop, the per-job retry loop (execCommandWithRetry), one attempt   *)
(* (execCommand), finalize (flush, log to disk, OnEvent) and the OnEvent   *)
(* fan-out with its WaitGroup barrier, and the manual entry point RunJob.  *)
(***************************************************************************)
EXTENDS Integers, Sequences, FiniteSets, TLC

\* ------------------------------------------------------------------ bounds
MaxRetries == 2   \* largest retry count a job definition carries
MaxUnits == 6     \* goroutines / entry-point executions ever started
MaxTicks == 2     \* ticker deliveries the Run loop handles

\* --------------------------------------------------------------- constants
Nil == "<nil>"                 \* a nil pointer / nil error
Sentinel == 0 - 1              \* JobRun.Status before execution says otherwise
ValidCron == "59 23 31 12 *"   \* due in one minute of the year
EveryMinute == "* * * * *"     \* due in every minute
BadCron == "every minute"
JobOrder == <<"a", "b", "c">>  \* the job names the definitions use
Missing == "zz"                \* a name that is never a key of the job map

\* gronx.IsValid on the cron strings the definitions use
IsValid(cron) == cron \in {ValidCron, EveryMinute}

\* IsDue with every valid expression due at every tick
IsDueEveryTick(cron, t) == cron \in {ValidCron, EveryMinute}

\* gronx.IsDue at the tick numbered t (0, 1, ...) of a run whose first tick is
\* the last second of the minute ValidCron names: the ticks are a second apart,
\* so every later tick is in the next minute. An empty or invalid expression
\* is not due (IsDue returns false with an error, which Run discards).
IsDue(cron, t) == cron = EveryMinute \/ (cron = ValidCron /\ t = 0)

RECURSIVE SeqToSet(_)
SeqToSet(q) == IF q = <<>> THEN {} ELSE {Head(q)} \cup SeqToSet(Tail(q))

\* ------------------------------------------------------------ definitions
OnEventSpec(tj, wh, sl) ==
    [TriggerJob |-> tj, NotifyWebhook |-> wh, NotifySlackWebhook |-> sl]

NoEvent == OnEventSpec(<<>>, <<>>, <<>>)

\* a JobSpec as yaml.Unmarshal leaves it: Name is not a yaml field
JobSpec(cron, command, retries, onSuccess, onError) ==
    [Cron |-> cron, Command |-> command, Retries |-> retries,
     OnSuccess |-> onSuccess, OnError |-> onError, Name |-> ""]

Schedule(jobs, onSuccess, onError) ==
    [Jobs |-> jobs, OnSuccess |-> onSuccess, OnError |-> onError]

\* Schedule{}: no jobs (nil map), empty event specs
EmptySchedule == Schedule(<<>>, NoEvent, NoEvent)

\* The commands the definitions use, by what their process does:
\*   <<>>     no command;          "nope"   no such executable: cmd.Start() fails
\*   "true"   exits 0;             "false"  exits 1
\*   "flaky"  exits 0 or 1;        "badio"  cmd.Wait() fails with no ExitError
Commands == {<<>>, <<"nope">>, <<"false">>, <<"flaky", "{{.msg}}">>, <<"badio">>}

Leaf(command) == JobSpec("", command, 0, NoEvent, NoEvent)

\* The schedule definitions the model is run on.
\* one job, no events: every command and every retry count (-1: a negative number
\* in the definition file, which nothing rejects)
PlainSchedules ==
    { Schedule([n \in {"a"} |-> JobSpec(ValidCron, cmd, r, NoEvent, NoEvent)],
               NoEvent, NoEvent) :
        cmd \in Commands, r \in (0 - 1)..MaxRetries }

\* job a with dependents and webhooks on both outcomes, with and without
\* schedule-level trigger lists
CascadeSchedules ==
    { Schedule([n \in {"a", "b", "c"} |->
                  CASE n = "a" -> JobSpec(ValidCron, cmd, r,
                                          OnEventSpec(<<"b", "c">>, <<"http://hook">>, <<>>),
                                          OnEventSpec(IF r = 0 THEN <<"c", "c">> ELSE <<"c">>,
                                                      <<>>, <<"http://chat">>))
                    [] n = "b" -> Leaf(<<"true">>)
                    [] n = "c" -> Leaf(<<"false">>)],
               OnEventSpec(gs, <<>>, <<>>), OnEventSpec(ge, <<>>, <<>>)) :
        cmd \in {<<>>, <<"nope">>, <<"flaky", "{{.msg}}">>}, r \in {0, 1},
        gs \in {<<>>, <<"c">>}, ge \in {<<>>, <<"b">>} }

\* trigger lists, of a job and of the schedule, that name a job that does not exist
DanglingSchedules ==
    { Schedule([n \in {"a", "b"} |->
                  CASE n = "a" -> JobSpec(ValidCron, <<"flaky", "{{.msg}}">>, 0,
                                          OnEventSpec(ls, <<>>, <<>>),
                                          OnEventSpec(le, <<>>, <<>>))
                    [] n = "b" -> Leaf(<<"true">>)],
               OnEventSpec(gs, <<>>, <<>>), OnEventSpec(ge, <<>>, <<>>)) :
        ls \in {<<>>, <<Missing>>}, le \in {<<>>, <<"b", Missing>>},
        gs \in {<<>>, <<Missing>>}, ge \in {<<>>, <<Missing>>} }

\* cron expressions that are empty, valid and invalid
BadCronSchedules ==
    { Schedule([n \in {"a", "b"} |->
                  CASE n = "a" -> JobSpec(BadCron, <<"true">>, 0, NoEvent, NoEvent)
                    [] n = "b" -> JobSpec(cb, <<"true">>, 0, NoEvent, NoEvent)],
               NoEvent, NoEvent) :
        cb \in {"", ValidCron, BadCron} }

\* jobs due on every tick: job a alone with every outcome of a process that
\* starts, and job b due on every tick and also a dependent of job a
TickSchedules ==
    { Schedule([n \in {"a"} |-> JobSpec(EveryMinute, cmd, r, NoEvent, NoEvent)],
               NoEvent, NoEvent) :
        cmd \in {<<"false">>, <<"flaky", "{{.msg}}">>}, r \in {0, 1} }
    \cup
    { Schedule([n \in {"a", "b"} |->
                  CASE n = "a" -> JobSpec(ValidCron, <<"true">>, 0,
                                          OnEventSpec(<<"b">>, <<>>, <<>>), NoEvent)
                    [] n = "b" -> JobSpec(EveryMinute, <<"false">>, 0, NoEvent, NoEvent)],
               NoEvent, NoEvent) }

Schedules ==
    PlainSchedules \cup CascadeSchedules \cup DanglingSchedules \cup BadCronSchedules
      \cup TickSchedules


\* ------------------------------------------------------------------- state
VARIABLES
    sched,    \* the definition file as readSpecs parses it
    entry,    \* the entry point called: RunSchedule, or RunJob with a job name
    engine,   \* Loading, Running, Stopped, Returned, Exited (os.Exit(1)), Crashed (panic)
    s,        \* the Schedule value loadSchedule returned
    err,      \* the error loadSchedule returned
    verr,     \* what Validate returned inside loadSchedule (Nil: no error, or not run)
    units,    \* every execution started so far, in start order (see Unit)
    disk,     \* job name -> the records appended to <name>.job.jsonl
    ticks,    \* ticker deliveries handled by Run
    logDirOk, \* whether the job logs under CheekPath() can be opened and written
    result    \* what RunJob returned: [jr, err] (NoResult before it returns)

vars == <<sched, entry, engine, s, err, verr, units, disk, ticks, logDirOk, result>>

\* ---------------------------------------------------------------- JobRun
\* JobRun{}: the zero value
ZeroRun == [Name |-> "", TriggeredBy |-> "", Status |-> 0, Duration |-> 0,
            Log |-> "", logBuf |-> ""]

\* fmt.Sprintf("%s[retry=%v]", trigger, tries)
RetryTrigger(trigger, tries) == trigger \o "[retry=" \o ToString(tries) \o "]"

\* fmt.Sprintf("job[%s]", j.Name)
JobTrigger(name) == "job[" \o name \o "]"

\* NewRun with the status left at its zero value
NewRunZeroStatus(j, trigger) ==
    [Name |-> j.Name, TriggeredBy |-> trigger, Status |-> 0, Duration |-> 0,
     Log |-> "", logBuf |-> ""]

\* the run execCommand starts from: status is the sentinel until execution says otherwise
NewRun(j, trigger) ==
    [Name |-> j.Name, TriggeredBy |-> trigger, Status |-> Sentinel, Duration |-> 0,
     Log |-> "", logBuf |-> ""]

\* execCommand up to cmd.Start(): the run it has in hand, and whether a process
\* is now running (so that cmd.Wait() follows) or the run is returned at once.
execCommand(j, trigger, startOk) ==
    LET jr == NewRun(j, trigger) IN
    IF Len(j.Command) = 0
      THEN [jr |-> [jr EXCEPT !.Log = "Job unable to start: no command specified"],
            started |-> FALSE]
      ELSE IF ~startOk
        THEN [jr |-> [jr EXCEPT !.logBuf = "job unable to start"], started |-> FALSE]
        ELSE [jr |-> jr, started |-> TRUE]

\* whether cmd.Start() succeeds for a command
StartResults(command) ==
    IF command # <<>> /\ command[1] = "nope" THEN {FALSE} ELSE {TRUE}

Exit(code) == [exited |-> TRUE, code |-> code]

\* what cmd.Wait() reports for a command: an exit code, or an error that is no
\* ExitError
WaitResults(command) ==
    CASE command[1] = "true" -> {Exit(0)}
      [] command[1] = "false" -> {Exit(1)}
      [] command[1] = "flaky" -> {Exit(0), Exit(1)}
      [] command[1] = "badio" -> {[exited |-> FALSE, code |-> 0]}

\* execCommand from cmd.Wait() on
waitCommand(jr, res) ==
    IF ~res.exited THEN jr
    ELSE IF res.code # 0 THEN [jr EXCEPT !.Status = res.code, !.logBuf = "output"]
    ELSE [jr EXCEPT !.Status = 0, !.Duration = 1, !.logBuf = "output"]

\* jr.flushLogBuffer()
flushLogBuffer(jr) == [jr EXCEPT !.Log = jr.logBuf]

\* what json.NewEncoder(f).Encode(j) writes of a run (exported fields)
Record(jr) == [Name |-> jr.Name, TriggeredBy |-> jr.TriggeredBy, Status |-> jr.Status,
               Duration |-> jr.Duration, Log |-> jr.Log]

\* ------------------------------------------------------------------ units
\* A unit is one goroutine (or the entry point's own thread) executing a job or
\* a webhook call:
\*   kind    "retry" (execCommandWithRetry), "manual" (RunJob), "webhook", "slack"
\*   target  the job name looked up, or the webhook URL
\*   job     key of the *JobSpec it runs on, Nil for a nil pointer
\*   trigger, params   the arguments of the call
\*   parent  the unit whose OnEvent dispatched it (0: tick loop or entry point)
\*   pc      loop, wait, finalize, barrier, sleep, done; call for webhooks
\*   tries   the retry loop's counter;  jr  the run in hand
\*   execs   calls of execCommand;  procs  processes started
\*   runs    the runs finalize was called on, in order
\*   sleeps  backoff sleeps taken
EmptyParams == <<>>

NewUnit(kind, target, job, trigger, params, parent, pc, jr) ==
    [kind |-> kind, target |-> target, job |-> job, trigger |-> trigger,
     params |-> params, parent |-> parent, pc |-> pc, tries |-> 0, jr |-> jr,
     runs |-> <<>>, execs |-> 0, procs |-> 0, sleeps |-> 0]

UnitIds == 1..Len(units)

\* the process exists: goroutines started before Run returned are neither
\* cancelled nor awaited by it, so they may still step once the loop has stopped
Alive == engine \in {"Running", "Stopped", "Manual"}

JobOf(i) == s.Jobs[units[i].job]

Children(i) == {k \in UnitIds : units[k].parent = i}

\* ------------------------------------------------------------ validation
\* append(v.OnSuccess.TriggerJob, v.OnError.TriggerJob...)
triggerJobs(v) == v.OnSuccess.TriggerJob \o v.OnError.TriggerJob

\* the error Validate's loop body returns for entry (k, v), or Nil
ValidateJob(sd, k) ==
    LET v == sd.Jobs[k]
        tj == triggerJobs(v)
        bad == {n \in 1..Len(tj) : tj[n] \notin DOMAIN sd.Jobs}
    IN IF v.Cron # "" /\ ~IsValid(v.Cron)
         THEN "cron string for job '" \o k \o "' not valid"
       ELSE IF bad # {}
         THEN LET n == CHOOSE n \in bad : \A m \in bad : n <= m
              IN "cannot find spec of job '" \o tj[n] \o "' that is referenced in job '"
                 \o k \o "'"
       ELSE Nil

\* Validate ranges over the map in an unspecified order and returns at the first
\* error: any offending entry's error can be the one returned.
Validate(sd) ==
    LET errs == {ValidateJob(sd, k) : k \in DOMAIN sd.Jobs} \ {Nil}
    IN IF errs = {} THEN {Nil} ELSE errs

\* the schedule after a Validate that returned nil: names back-filled from the keys
Validated(sd) ==
    [sd EXCEPT !.Jobs = [k \in DOMAIN sd.Jobs |-> [sd.Jobs[k] EXCEPT !.Name = k]]]

\* ---------------------------------------------------------------- startup
\* RunJob has not returned
NoResult == [jr |-> ZeroRun, err |-> "<pending>"]

Entries == {[fn |-> "RunSchedule", jobName |-> ""]}
           \cup {[fn |-> "RunJob", jobName |-> n] : n \in {"a", Missing}}

Init ==
    /\ sched \in Schedules
    /\ entry \in Entries
    /\ engine = "Loading"
    /\ s = EmptySchedule
    /\ err = Nil
    /\ verr = Nil
    /\ units = <<>>
    /\ disk = [n \in SeqToSet(JobOrder) |-> <<>>]
    /\ ticks = 0
    /\ logDirOk \in BOOLEAN
    /\ result = NoResult

\* loadSchedule: readSpecs, then Validate
loadSchedule(sd, readOk, ve) ==
    IF ~readOk THEN [s |-> EmptySchedule, err |-> "read error", verr |-> Nil]
    ELSE IF ve # Nil THEN [s |-> EmptySchedule, err |-> Nil, verr |-> ve]
    ELSE [s |-> Validated(sd), err |-> Nil, verr |-> Nil]

\* RunSchedule up to the call of s.Run
RunSchedule ==
    /\ engine = "Loading" /\ entry.fn = "RunSchedule"
    /\ \E readOk \in BOOLEAN, ve \in Validate(sched) :
         LET l == loadSchedule(sched, readOk, ve) IN
         /\ s' = l.s /\ err' = l.err /\ verr' = l.verr
         /\ engine' = IF l.err # Nil THEN "Exited" ELSE "Running"
    /\ UNCHANGED <<sched, entry, units, disk, ticks, logDirOk, result>>

\* ManualUnit through the retry loop instead of a single execCommand
ManualUnitRetried(j, k, startOk) ==
    NewUnit("retry", k, k, "manual", EmptyParams, 0, "loop", ZeroRun)

\* job.execCommand("manual", make(map[string]string)) in RunJob, up to cmd.Start()
ManualUnit(j, k, startOk) ==
    LET x == execCommand(j, "manual", startOk)
        u == NewUnit("manual", k, k, "manual", EmptyParams, 0,
                     IF x.started THEN "wait" ELSE "finalize", x.jr)
    IN [u EXCEPT !.execs = 1, !.procs = IF x.started THEN 1 ELSE 0]

\* RunJob up to the return of execCommand's cmd.Start() (or its early return)
RunJob ==
    /\ engine = "Loading" /\ entry.fn = "RunJob"
    /\ \E readOk \in BOOLEAN, ve \in Validate(sched) :
         LET l == loadSchedule(sched, readOk, ve)
             found == {k \in DOMAIN l.s.Jobs : l.s.Jobs[k].Name = entry.jobName}
         IN
         /\ s' = l.s /\ err' = l.err /\ verr' = l.verr
         /\ IF l.err # Nil
              THEN engine' = "Exited" /\ UNCHANGED <<units, result>>
            ELSE IF found = {}
              THEN /\ engine' = "Returned"
                   /\ result' = [jr |-> ZeroRun,
                                 err |-> "cannot find job " \o entry.jobName]
                   /\ UNCHANGED units
            ELSE \E k \in found : \E startOk \in StartResults(l.s.Jobs[k].Command) :
                   /\ units' = <<ManualUnit(l.s.Jobs[k], k, startOk)>>
                      /\ engine' = "Manual"
                      /\ UNCHANGED result
    /\ UNCHANGED <<sched, entry, disk, ticks, logDirOk>>

\* ------------------------------------------------------------- tick loop
\* the jobs of JobOrder that are in D, in that order
RECURSIVE Pick(_, _)
Pick(q, D) ==
    IF q = <<>> THEN <<>>
    ELSE IF Head(q) \in D THEN <<Head(q)>> \o Pick(Tail(q), D) ELSE Pick(Tail(q), D)

\* the jobs Run's ticker case considers: those with a cron expression
CronJobs == {k \in DOMAIN s.Jobs : s.Jobs[k].Cron # ""}

\* the jobs Run's ticker case dispatches at the tick numbered t
DueJobs(t) == {k \in CronJobs : IsDue(s.Jobs[k].Cron, t)}

\* Tick skipping a due job that has an execution in flight
TickSingleInstance ==
    /\ engine = "Running"
    /\ ticks < MaxTicks
    /\ LET busy == {units[k].job : k \in {n \in UnitIds : units[n].pc # "done"}}
           q == Pick(JobOrder, DueJobs(ticks) \ busy) IN
         /\ Len(units) + Len(q) <= MaxUnits
         /\ units' = units \o [n \in 1..Len(q) |->
                NewUnit("retry", q[n], q[n], "cron", EmptyParams, 0, "loop", ZeroRun)]
    /\ ticks' = ticks + 1
    /\ UNCHANGED <<sched, entry, engine, s, err, verr, disk, logDirOk, result>>

\* Tick handled only once every execution dispatched so far has returned
TickAfterJobs ==
    /\ engine = "Running"
    /\ ticks < MaxTicks
    /\ \A k \in UnitIds : units[k].pc = "done"
    /\ LET q == Pick(JobOrder, DueJobs(ticks)) IN
         /\ Len(units) + Len(q) <= MaxUnits
         /\ units' = units \o [n \in 1..Len(q) |->
                NewUnit("retry", q[n], q[n], "cron", EmptyParams, 0, "loop", ZeroRun)]
    /\ ticks' = ticks + 1
    /\ UNCHANGED <<sched, entry, engine, s, err, verr, disk, logDirOk, result>>

\* case <-ticker.C: every job whose cron expression is due gets a goroutine
Tick ==
    /\ engine = "Running"
    /\ ticks < MaxTicks
    /\ LET q == Pick(JobOrder, DueJobs(ticks)) IN
         /\ Len(units) + Len(q) <= MaxUnits
         /\ units' = units \o [n \in 1..Len(q) |->
                NewUnit("retry", q[n], q[n], "cron", EmptyParams, 0, "loop", ZeroRun)]
    /\ ticks' = ticks + 1
    /\ UNCHANGED <<sched, entry, engine, s, err, verr, disk, logDirOk, result>>

\* Signal with every dispatched execution cancelled as Run returns
SignalCancels ==
    /\ engine = "Running"
    /\ engine' = "Stopped"
    /\ units' = [k \in UnitIds |-> [units[k] EXCEPT !.pc = "done"]]
    /\ UNCHANGED <<sched, entry, s, err, verr, disk, ticks, logDirOk, result>>

\* case sig := <-sigs: Run returns
Signal ==
    /\ engine = "Running"
    /\ engine' = "Stopped"
    /\ UNCHANGED <<sched, entry, s, err, verr, units, disk, ticks, logDirOk, result>>

\* ------------------------------------------------------------ retry loop
\* MoreTries with the loop bound one short
MoreTriesOffByOne(j, tries) == tries < j.Retries

\* the loop condition of execCommandWithRetry
MoreTries(j, tries) == tries < j.Retries + 1

\* the trigger descriptor of attempt number tries
AttemptTrigger(trigger, tries) ==
    IF tries = 0 THEN trigger ELSE RetryTrigger(trigger, tries)

\* execCommandWithRetry: (the backoff sleep is over,) the loop test passes and
\* execCommand runs up to cmd.Start()
ExecStart(i) ==
    LET u == units[i] IN
    /\ Alive /\ u.kind = "retry" /\ u.pc \in {"loop", "sleep"} /\ u.job # Nil
    /\ MoreTries(JobOf(i), u.tries)
    /\ \E startOk \in StartResults(JobOf(i).Command) :
         LET x == execCommand(JobOf(i), AttemptTrigger(u.trigger, u.tries), startOk) IN
         units' = [units EXCEPT ![i] =
                     [u EXCEPT !.jr = x.jr,
                               !.pc = IF x.started THEN "wait" ELSE "finalize",
                               !.execs = @ + 1,
                               !.procs = IF x.started THEN @ + 1 ELSE @]]
    /\ UNCHANGED <<sched, entry, engine, s, err, verr, disk, ticks, logDirOk, result>>

\* cmd.Wait() returns and execCommand returns its run
ProcExit(i) ==
    LET u == units[i] IN
    /\ Alive /\ u.pc = "wait"
    /\ \E res \in WaitResults(JobOf(i).Command) :
         units' = [units EXCEPT ![i] = [u EXCEPT !.jr = waitCommand(u.jr, res),
                                                 !.pc = "finalize"]]
    /\ UNCHANGED <<sched, entry, engine, s, err, verr, disk, ticks, logDirOk, result>>

\* ---------------------------------------------------------------- OnEvent
\* the event spec OnEvent's switch selects from a job or from the schedule
EventOf(x, jr) == IF jr.Status = 0 THEN x.OnSuccess ELSE x.OnError

\* jobsToTrigger with the schedule's list put first
jobsToTriggerGlobalFirst(j, g, jr) ==
    EventOf(g, jr).TriggerJob \o EventOf(j, jr).TriggerJob

\* jobsToTrigger, webhooksToCall, slackWebhooksToCall after the switch:
\* the job's own list with the schedule's list appended (append may write the
\* schedule's entries into spare capacity of the job's slice; the job's list
\* keeps its length, and concurrent calls write the same entries)
jobsToTrigger(j, g, jr) == EventOf(j, jr).TriggerJob \o EventOf(g, jr).TriggerJob

webhooksToCall(j, g, jr) == EventOf(j, jr).NotifyWebhook \o EventOf(g, jr).NotifyWebhook

slackWebhooksToCall(j, g, jr) ==
    EventOf(j, jr).NotifySlackWebhook \o EventOf(g, jr).NotifySlackWebhook

\* tj := j.globalSchedule.Jobs[tn]: the job's key, or a nil pointer
Lookup(g, tn) == IF tn \in DOMAIN g.Jobs THEN tn ELSE Nil

\* the goroutines OnEvent starts for run jr of job j, where i is the caller
Dispatched(i, j, g, jr) ==
    LET tj == jobsToTrigger(j, g, jr)
        wh == webhooksToCall(j, g, jr)
        sl == slackWebhooksToCall(j, g, jr)
    IN [n \in 1..Len(tj) |->
          NewUnit("retry", tj[n], Lookup(g, tj[n]), JobTrigger(j.Name), EmptyParams,
                  i, "loop", ZeroRun)]
       \o [n \in 1..Len(wh) |->
          NewUnit("webhook", wh[n], Nil, "generic", EmptyParams, i, "call", jr)]
       \o [n \in 1..Len(sl) |->
          NewUnit("slack", sl[n], Nil, "slack", EmptyParams, i, "call", jr)]

\* logToDisk: the job's log with the run appended, or unchanged when the file
\* cannot be opened or written (a warning, nothing else)
logToDisk(d, jr, ok) == IF ok THEN [d EXCEPT ![jr.Name] = Append(@, Record(jr))] ELSE d

\* Finalize with OnEvent called only for the attempt that ends the retry loop
FinalizeLastOnly(i) ==
    LET u == units[i]
        jr == flushLogBuffer(u.jr)
        last == jr.Status = 0 \/ u.kind = "manual" \/ ~MoreTries(JobOf(i), u.tries + 1)
        new == IF last THEN Dispatched(i, JobOf(i), s, jr) ELSE <<>>
    IN
    /\ Alive /\ u.pc = "finalize"
    /\ Len(units) + Len(new) <= MaxUnits
    /\ disk' = logToDisk(disk, jr, logDirOk)
    /\ units' = [units EXCEPT ![i] = [u EXCEPT !.jr = jr, !.pc = "barrier",
                                               !.runs = Append(@, jr)]] \o new
    /\ UNCHANGED <<sched, entry, engine, s, err, verr, ticks, logDirOk, result>>

\* Finalize returning before OnEvent when the log cannot be written
FinalizeStopsOnLogError(i) ==
    LET u == units[i]
        jr == flushLogBuffer(u.jr)
        new == IF logDirOk THEN Dispatched(i, JobOf(i), s, jr) ELSE <<>>
    IN
    /\ Alive /\ u.pc = "finalize"
    /\ Len(units) + Len(new) <= MaxUnits
    /\ disk' = logToDisk(disk, jr, logDirOk)
    /\ units' = [units EXCEPT ![i] = [u EXCEPT !.jr = jr, !.pc = "barrier",
                                               !.runs = Append(@, jr)]] \o new
    /\ UNCHANGED <<sched, entry, engine, s, err, verr, ticks, logDirOk, result>>

\* finalize: flushLogBuffer, logToDisk, and OnEvent up to wg.Wait()
Finalize(i) ==
    LET u == units[i]
        jr == flushLogBuffer(u.jr)
        new == Dispatched(i, JobOf(i), s, jr)
    IN
    /\ Alive /\ u.pc = "finalize"
    /\ Len(units) + Len(new) <= MaxUnits
    /\ disk' = logToDisk(disk, jr, logDirOk)
    /\ units' = [units EXCEPT ![i] = [u EXCEPT !.jr = jr, !.pc = "barrier",
                                               !.runs = Append(@, jr)]] \o new
    /\ UNCHANGED <<sched, entry, engine, s, err, verr, ticks, logDirOk, result>>

\* WaitGroupDone with the webhook goroutines not added to the WaitGroup
WaitGroupDoneJobsOnly(i) ==
    \A k \in Children(i) : units[k].kind = "retry" => units[k].pc = "done"

\* WaitGroupDone with wg.Wait() returning at once
WaitGroupNoWait(i) == TRUE

\* wg.Wait(): every goroutine this OnEvent call started has called wg.Done()
WaitGroupDone(i) == \A k \in Children(i) : units[k].pc = "done"

\* WaitReturn without the break on status 0
WaitReturnNoBreak(i) ==
    LET u == units[i] IN
    /\ Alive /\ u.pc = "barrier"
    /\ WaitGroupDone(i)
    /\ IF u.kind = "manual"
         THEN /\ units' = [units EXCEPT ![i].pc = "done"]
              /\ result' = [jr |-> u.jr, err |-> Nil]
              /\ engine' = "Returned"
         ELSE /\ units' = [units EXCEPT ![i] =
                   [u EXCEPT !.pc = "sleep", !.tries = @ + 1, !.sleeps = @ + 1]]
              /\ UNCHANGED <<result, engine>>
    /\ UNCHANGED <<sched, entry, s, err, verr, disk, ticks, logDirOk>>

\* OnEvent and finalize return; the retry loop breaks on status 0, else counts
\* the try and sleeps; RunJob returns the run
WaitReturn(i) ==
    LET u == units[i] IN
    /\ Alive /\ u.pc = "barrier"
    /\ WaitGroupDone(i)
    /\ IF u.kind = "manual"
         THEN /\ units' = [units EXCEPT ![i].pc = "done"]
              /\ result' = [jr |-> u.jr, err |-> Nil]
              /\ engine' = "Returned"
         ELSE /\ units' = [units EXCEPT ![i] =
                   IF u.jr.Status = 0
                     THEN [u EXCEPT !.pc = "done"]
                     ELSE [u EXCEPT !.pc = "sleep", !.tries = @ + 1, !.sleeps = @ + 1]]
              /\ UNCHANGED <<result, engine>>
    /\ UNCHANGED <<sched, entry, s, err, verr, disk, ticks, logDirOk>>

\* (the backoff sleep is over,) the loop test fails: return jr
Return(i) ==
    LET u == units[i] IN
    /\ Alive /\ u.kind = "retry" /\ u.pc \in {"loop", "sleep"} /\ u.job # Nil
    /\ ~MoreTries(JobOf(i), u.tries)
    /\ units' = [units EXCEPT ![i].pc = "done"]
    /\ UNCHANGED <<sched, entry, engine, s, err, verr, disk, ticks, logDirOk, result>>

\* execCommandWithRetry on a nil *JobSpec: reading j.Retries panics, and a panic
\* in a goroutine ends the process
NilPanic(i) ==
    LET u == units[i] IN
    /\ Alive /\ u.kind = "retry" /\ u.pc = "loop" /\ u.job = Nil
    /\ engine' = "Crashed"
    /\ UNCHANGED <<sched, entry, s, err, verr, units, disk, ticks, logDirOk, result>>

\* a webhook goroutine: JobRunWebhookCall returns (a body or an error), wg.Done()
WebhookCall(i) ==
    LET u == units[i] IN
    /\ Alive /\ u.kind \in {"webhook", "slack"} /\ u.pc = "call"
    /\ units' = [units EXCEPT ![i].pc = "done"]
    /\ UNCHANGED <<sched, entry, engine, s, err, verr, disk, ticks, logDirOk, result>>

Next ==
    \/ RunSchedule
    \/ RunJob
    \/ Tick
    \/ Signal
    \/ \E i \in UnitIds : ExecStart(i)
    \/ \E i \in UnitIds : ProcExit(i)
    \/ \E i \in UnitIds : Finalize(i)
    \/ \E i \in UnitIds : WaitReturn(i)
    \/ \E i \in UnitIds : Return(i)
    \/ \E i \in UnitIds : NilPanic(i)
    \/ \E i \in UnitIds : WebhookCall(i)

Spec == Init /\ [][Next]_vars

\* the next step of the goroutine (or entry-point thread) numbered i
Step(i) ==
    /\ i \in UnitIds
    /\ \/ ExecStart(i) \/ ProcExit(i) \/ Finalize(i) \/ WaitReturn(i)
       \/ Return(i) \/ NilPanic(i) \/ WebhookCall(i)

\* Spec with every goroutine scheduled again and again, every process exiting,
\* every webhook call returning and every backoff sleep ending
FairSpec == Spec /\ \A i \in 1..MaxUnits : WF_vars(Step(i))

\* ================================================================ claims
\* the units that execute a job, and the definition of the job a unit runs
JobUnits == {i \in UnitIds : units[i].kind \in {"retry", "manual"} /\ units[i].job # Nil}

RetryUnits == {i \in JobUnits : units[i].kind = "retry"}

Def(i) == sched.Jobs[units[i].job]

AllFail(u) == \A k \in 1..Len(u.runs) : u.runs[k].Status # 0

\* the descriptor the k-th attempt (k = 1, 2, ...) of a call with descriptor T carries
Descriptor(T, k) == IF k = 1 THEN T ELSE T \o "[retry=" \o ToString(k - 1) \o "]"

\* the number of runs finalized by the first n units for the job named name
RECURSIVE Finalized(_, _)
Finalized(name, n) ==
    IF n = 0 THEN 0
    ELSE Finalized(name, n - 1)
         + (IF units[n].kind \in {"retry", "manual"} /\ units[n].job = name
              THEN Len(units[n].runs) ELSE 0)

\* C1: a retry-loop call on a job with retries R >= 0 whose attempts all fail makes
\* exactly R+1 attempts and finalizes each once; attempt 0 carries the trigger
\* descriptor T and attempt k carries "T[retry=k]", all pairwise distinct. Each
\* finalized run is one record of the job's log when the log can be written.
C1_AllFailMakesRPlus1 ==
    /\ logDirOk => \A name \in DOMAIN disk : Len(disk[name]) = Finalized(name, Len(units))
    /\ \A i \in RetryUnits :
        LET u == units[i]
            R == Def(i).Retries
            n == Len(u.runs)
        IN (R >= 0 /\ AllFail(u)) =>
             /\ u.execs <= R + 1
             /\ n <= u.execs /\ u.execs <= n + 1
             /\ (u.pc \in {"barrier", "sleep", "done"} => u.execs = n)
             /\ \A k \in 1..n : u.runs[k].TriggeredBy = Descriptor(u.trigger, k)
             /\ \A k, m \in 1..n : k # m => u.runs[k].TriggeredBy # u.runs[m].TriggeredBy
             /\ (u.pc = "done" => u.execs = R + 1 /\ n = R + 1)

C1_Witness ==
    \E i \in RetryUnits :
        /\ units[i].pc = "done" /\ AllFail(units[i])
        /\ Def(i).Retries >= 2 /\ Len(units[i].runs) = Def(i).Retries + 1
        /\ units[i].runs[3].TriggeredBy = "cron[retry=2]"
        /\ Len(disk[units[i].job]) = 3

\* C2: in a retry-loop call, an attempt that finishes with status 0 is the last
\* attempt: no further attempt starts, no retry is consumed, no backoff sleep is
\* taken, and the run returned has status 0.
C2_SuccessStopsRetries ==
    \A i \in RetryUnits :
        LET u == units[i] IN
        \A k \in 1..Len(u.runs) :
            u.runs[k].Status = 0 =>
              /\ k = Len(u.runs)
              /\ u.pc \in {"barrier", "done"}
              /\ u.execs = k /\ u.tries = k - 1 /\ u.sleeps = k - 1
              /\ u.jr = u.runs[k] /\ u.jr.Status = 0

C2_Witness ==
    \E i \in RetryUnits :
        /\ units[i].pc = "done" /\ Def(i).Retries >= 2
        /\ Len(units[i].runs) = 2
        /\ units[i].runs[1].Status # 0 /\ units[i].runs[2].Status = 0

\* C3: every retry-loop call, whatever the job's retry count, executes at least one
\* attempt and returns the run of the last attempt it finalized; it returns
\* status 0 only if an attempt exited with code 0.
C3_AlwaysOneAttempt ==
    \A i \in RetryUnits :
        LET u == units[i] IN
        u.pc = "done" =>
          /\ u.execs >= 1 /\ Len(u.runs) >= 1
          /\ u.jr = u.runs[Len(u.runs)]
          /\ (u.jr.Status = 0 => u.procs >= 1)

\* C4: OnEvent is a barrier: while a dependent job's retry loop or a webhook call
\* it dispatched has not finished, the OnEvent call that dispatched it has not
\* returned.
C4_CascadeIsBarrier ==
    \A k \in UnitIds :
        (units[k].parent # 0 /\ units[k].pc # "done")
           => units[units[k].parent].pc = "barrier"

C4_Witness ==
    \E p \in JobUnits :
        /\ units[p].pc = "done"
        /\ Cardinality({k \in Children(p) : units[k].kind = "retry"}) >= 2
        /\ \E k \in Children(p) : units[k].kind = "webhook"
        /\ \A k \in Children(p) : units[k].pc = "done"

\* the targets of the units of one kind that unit p dispatched, among the first n
\* units, in dispatch order
RECURSIVE Targets(_, _, _)
Targets(p, kind, n) ==
    IF n = 0 THEN <<>>
    ELSE Targets(p, kind, n - 1)
         \o (IF units[n].parent = p /\ units[n].kind = kind
               THEN <<units[n].target>> ELSE <<>>)

\* for the finalized runs of a job with definition d: per run, the list named
\* field of the run's outcome (on_success for status 0, on_error otherwise), the
\* job's own entries followed by the schedule's
RECURSIVE Listed(_, _, _)
Listed(d, runs, field) ==
    IF runs = <<>> THEN <<>>
    ELSE LET own == IF Head(runs).Status = 0 THEN d.OnSuccess ELSE d.OnError
             global == IF Head(runs).Status = 0 THEN sched.OnSuccess ELSE sched.OnError
         IN own[field] \o global[field] \o Listed(d, Tail(runs), field)

\* C5: for each finalized run the cascade dispatches exactly the entries of the
\* run's outcome (status 0: on_success, otherwise on_error), the job's own
\* entries first and the schedule's after them, nothing of the other outcome; a
\* dependent job is dispatched once per occurrence, as a retry-loop call with
\* descriptor "job[<parent>]" and no parameters.
C5_CascadeFiresOneOutcome ==
    \A p \in JobUnits :
        LET n == Len(units) IN
        /\ Targets(p, "retry", n) = Listed(Def(p), units[p].runs, "TriggerJob")
        /\ Targets(p, "webhook", n) = Listed(Def(p), units[p].runs, "NotifyWebhook")
        /\ Targets(p, "slack", n) = Listed(Def(p), units[p].runs, "NotifySlackWebhook")
        /\ \A k \in Children(p) :
             units[k].kind = "retry" =>
               /\ units[k].trigger = "job[" \o units[p].job \o "]"
               /\ units[k].params = <<>>
               /\ (units[k].target \in DOMAIN sched.Jobs => units[k].job = units[k].target)

C5_Witness ==
    \E p \in JobUnits :
        /\ Len(units[p].runs) = 1 /\ units[p].runs[1].Status = 0
        /\ Targets(p, "retry", Len(units)) = <<"b", "c", "c">>
        /\ Targets(p, "webhook", Len(units)) = <<"http://hook">>
        /\ Targets(p, "slack", Len(units)) = <<>>

\* every name in a trigger_job list, of a job or of the schedule, is a job
AllRefsExist(sd) ==
    /\ \A k \in DOMAIN sd.Jobs :
         SeqToSet(sd.Jobs[k].OnSuccess.TriggerJob) \cup SeqToSet(sd.Jobs[k].OnError.TriggerJob)
            \subseteq DOMAIN sd.Jobs
    /\ SeqToSet(sd.OnSuccess.TriggerJob) \cup SeqToSet(sd.OnError.TriggerJob)
          \subseteq DOMAIN sd.Jobs

AllCronsValid(sd) ==
    \A k \in DOMAIN sd.Jobs : sd.Jobs[k].Cron # "" => IsValid(sd.Jobs[k].Cron)

\* C6: Validate returns an error whenever a trigger_job list of a job or of the
\* schedule names a job that does not exist, and returns none only if every
\* referenced name exists and every non-empty cron expression is valid.
C6_ValidateRejectsDangling ==
    (engine # "Loading" /\ err = Nil) =>
        ((verr = Nil) <=> (AllRefsExist(sched) /\ AllCronsValid(sched)))

\* C7: when Validate reports an error, loading reports an error to its caller
\* and the engine never runs.
C7_ValidationFailureIsFatal ==
    verr # Nil => (err # Nil /\ engine # "Running" /\ ticks = 0)

\* C8: for a schedule that passed validation, every dependent-job name the
\* cascade looks up is a job of the schedule: no retry loop is dispatched on a
\* nil job.
C8_CascadeNeverMissesJob ==
    \A k \in UnitIds : units[k].kind = "retry" => units[k].job # Nil

\* C9: RunJob on a name of the loaded schedule runs one attempt of that job with
\* descriptor "manual" and no parameters, whatever the job's retry count,
\* finalizes it once and returns that run; on any other name it returns a
\* not-found error, runs nothing and records nothing.
C9_RunJobOnce ==
    entry.fn = "RunJob" =>
      /\ engine \in {"Manual", "Returned"} =>
           IF entry.jobName \in DOMAIN s.Jobs
             THEN /\ units # <<>>
                  /\ LET u == units[1] IN
                     /\ u.kind = "manual" /\ u.job = entry.jobName
                     /\ u.trigger = "manual" /\ u.params = <<>>
                     /\ u.execs = 1 /\ u.tries = 0 /\ u.sleeps = 0
                     /\ Len(u.runs) <= 1
                     /\ \A k \in 1..Len(u.runs) : u.runs[k].TriggeredBy = "manual"
                     /\ engine = "Returned" =>
                          /\ u.pc = "done" /\ Len(u.runs) = 1
                          /\ result = [jr |-> u.runs[1], err |-> Nil]
                  /\ \A k \in UnitIds : k # 1 => units[k].parent # 0
             ELSE /\ engine = "Returned"
                  /\ result.jr = ZeroRun
                  /\ result.err = "cannot find job " \o entry.jobName
                  /\ units = <<>>
                  /\ \A n \in DOMAIN disk : disk[n] = <<>>
      /\ engine = "Exited" => units = <<>>

C9_Witness ==
    /\ entry.fn = "RunJob" /\ engine = "Returned"
    /\ result.err = Nil /\ result.jr.Status = 1
    /\ s.Jobs[entry.jobName].Retries >= 1
    /\ disk[entry.jobName] # <<>>

\* a job whose attempts cannot run a process: no command, or no such executable
NoStart(d) == d.Command = <<>> \/ d.Command[1] = "nope"

\* C10: an attempt with an empty command, or whose process fails to start,
\* starts no process and yields the sentinel status; it is finalized like any
\* failed attempt (recorded, the on_error entries dispatched and none of
\* on_success), retried per the retry count, and it does not end the process
\* (the process ends only at startup or on the dispatch of a nil job).
C10_SentinelIsFailedAttempt ==
    \A p \in JobUnits :
        LET u == units[p]
            d == Def(p)
            n == Len(units)
            perRun(own, global) == own \o global
        IN NoStart(d) =>
             /\ u.procs = 0
             /\ u.pc # "wait"
             /\ (u.execs >= 1 => u.jr.Status = Sentinel)
             /\ \A k \in 1..Len(u.runs) : u.runs[k].Status = Sentinel
             /\ (logDirOk => \A k \in 1..Len(u.runs) :
                   \E m \in 1..Len(disk[u.job]) :
                      /\ disk[u.job][m].TriggeredBy = u.runs[k].TriggeredBy
                      /\ disk[u.job][m].Status = Sentinel)
             /\ \A k \in Children(p) :
                   \/ /\ units[k].kind = "retry"
                      /\ units[k].target \in
                           SeqToSet(d.OnError.TriggerJob \o sched.OnError.TriggerJob)
                   \/ /\ units[k].kind = "slack"
                      /\ units[k].target \in
                           SeqToSet(d.OnError.NotifySlackWebhook
                                    \o sched.OnError.NotifySlackWebhook)
             /\ Len(Targets(p, "retry", n))
                  = Len(u.runs) * Len(d.OnError.TriggerJob \o sched.OnError.TriggerJob)
             /\ Targets(p, "webhook", n) = <<>>
             /\ (u.kind = "retry" /\ d.Retries >= 0 =>
                   /\ u.execs <= d.Retries + 1
                   /\ (u.pc = "done" => Len(u.runs) = d.Retries + 1))
             /\ (engine = "Crashed" => \E k \in UnitIds : units[k].job = Nil /\ units[k].kind = "retry")
             /\ engine # "Exited"

C10_Witness ==
    \E p \in RetryUnits :
        /\ NoStart(Def(p)) /\ Def(p).Retries >= 1
        /\ units[p].pc = "done" /\ Len(units[p].runs) = Def(p).Retries + 1
        /\ Cardinality(Children(p)) >= 4
        /\ \A k \in Children(p) : units[k].pc = "done"

\* the descriptors of the attempts of a tick dispatch: "cron", "cron[retry=1]", ...
CronDescriptors == {Descriptor("cron", k) : k \in 1..(MaxRetries + 2)}

\* the units a step adds
Added == {k \in 1..Len(units') : k > Len(units)}

\* runs with a tick descriptor belong to tick-dispatched units of jobs that have
\* a cron expression; a job's other runs come from a cascade or from RunJob
CronRunsHaveCron ==
    \A i \in JobUnits :
        LET u == units[i] IN
        /\ (u.parent = 0 /\ u.kind = "retry") <=> u.trigger = "cron"
        /\ u.trigger = "cron" => Def(i).Cron # ""
        /\ u.trigger # "cron" =>
             \/ u.kind = "manual" /\ u.trigger = "manual"
             \/ /\ u.parent \in JobUnits
                /\ u.trigger = JobTrigger(units[u.parent].job)
        /\ \A k \in 1..Len(u.runs) :
             /\ u.runs[k].TriggeredBy = AttemptTrigger(u.trigger, k - 1)
             /\ u.runs[k].TriggeredBy \in CronDescriptors => u.trigger = "cron"
             /\ Def(i).Cron = "" => u.runs[k].TriggeredBy \notin CronDescriptors

\* C11: the tick loop dispatches a job only on a tick at which the job has a
\* non-empty cron expression that is due (an expression naming one minute is
\* not dispatched on the ticks after that minute); a job with an empty cron
\* expression never gets a run with descriptor "cron" or a retry of it: its runs
\* are triggered by a cascade ("job[<parent>]") or manually.
C11_CronDispatchOnlyWhenDue ==
    [][/\ CronRunsHaveCron'
       /\ \A k \in Added :
            units'[k].parent = 0 /\ units'[k].kind = "retry" =>
              LET cron == s.Jobs[units'[k].job].Cron IN
              /\ engine = "Running" /\ ticks' = ticks + 1
              /\ units'[k].trigger = "cron"
              /\ cron # ""
              /\ cron = EveryMinute \/ ticks = 0]_vars

C11_Witness ==
    /\ ticks >= 2
    /\ Cardinality({i \in JobUnits : units[i].trigger = "cron"}) = 1
    /\ \E i \in JobUnits :
         /\ Def(i).Cron = "" /\ units[i].pc = "done"
         /\ units[i].runs # <<>> /\ units[i].runs[1].TriggeredBy = "job[a]"
    /\ \E i \in JobUnits :
         /\ Def(i).Cron = ValidCron
         /\ Len(units[i].runs) >= 2 /\ units[i].runs[2].TriggeredBy = "cron[retry=1]"

\* the executions that have not returned
InFlight == {i \in UnitIds : units[i].pc # "done"}

\* C12: the tick loop never blocks on job completion: whatever executions are in
\* flight (a process that has not exited, a backoff sleep, a cascade barrier),
\* a running loop handles the next tick (as long as the model's tick and unit
\* counts have room for it) and reacts to a termination signal.
C12_TickLoopNeverBlocks ==
    engine = "Running" =>
      /\ ENABLED Signal
      /\ (ticks < MaxTicks /\ Len(units) + Cardinality(DueJobs(ticks)) <= MaxUnits)
           => ENABLED Tick

\* a tick has dispatched unit n while a barrier (i), a process started by its
\* cascade (k) and a backoff sleep (m) were in flight, and they still are
C12_Witness ==
    /\ engine = "Running" /\ ticks >= 2 /\ ENABLED Signal
    /\ \E i, k, m \in InFlight : \E n \in UnitIds :
         /\ units[i].pc = "barrier" /\ units[k].parent = i /\ units[k].pc = "wait"
         /\ units[m].pc = "sleep"
         /\ units[n].trigger = "cron" /\ k < n /\ m < n

\* the statuses execCommand can give a run of a command
Statuses(command) ==
    IF command = <<>> \/ command[1] \in {"nope", "badio"} THEN {Sentinel}
    ELSE {res.code : res \in WaitResults(command)}

\* what a job unit does whether or not its runs reach the log: the status of
\* each run, the cascade of each run's outcome and its barrier, and the retry
\* decision
SameButTheLog(i) ==
    LET u == units[i]
        R == Def(i).Retries
        n == Len(u.runs)
    IN
    /\ \A k \in 1..n : u.runs[k].Status \in Statuses(Def(i).Command)
    /\ Targets(i, "retry", Len(units)) = Listed(Def(i), u.runs, "TriggerJob")
    /\ Targets(i, "webhook", Len(units)) = Listed(Def(i), u.runs, "NotifyWebhook")
    /\ Targets(i, "slack", Len(units)) = Listed(Def(i), u.runs, "NotifySlackWebhook")
    /\ (\E k \in Children(i) : units[k].pc # "done") => u.pc = "barrier"
    /\ u.kind = "retry" =>
         /\ \A k \in 1..n : u.runs[k].Status = 0 => k = n /\ u.pc \in {"barrier", "done"}
         /\ n <= R + 1 \/ n = 0
         /\ (u.pc = "done" /\ R >= 0) => (u.runs[n].Status = 0 \/ n = R + 1)
         /\ (u.pc = "sleep" /\ n < R + 1) => ENABLED ExecStart(i)

\* C13: a failure to open or write the job's log during finalize changes
\* nothing but the log: nothing is appended, and the run's status, the cascade
\* fired for its outcome and awaited, and the retry decision (stop on status 0,
\* otherwise retry while attempts remain) are as they are when the log is written.
C13_LogFailureChangesOnlyLog ==
    /\ \A i \in JobUnits : SameButTheLog(i)
    /\ \A name \in DOMAIN disk :
         Len(disk[name]) = IF logDirOk THEN Finalized(name, Len(units)) ELSE 0

C13_Witness ==
    /\ ~logDirOk
    /\ \A name \in DOMAIN disk : disk[name] = <<>>
    /\ \E p \in RetryUnits :
         /\ units[p].pc = "done" /\ units[p].procs = 2
         /\ Len(units[p].runs) = 2 /\ units[p].runs[2].Status = 1
         /\ Cardinality(Children(p)) = 4
         /\ \A k \in Children(p) : units[k].pc = "done"

\* the steps of unit i in one transition, in the order the retry loop takes them
OrderedSteps(i) ==
    LET u == units[i]
        v == units'[i]
        n == Len(u.runs)
        kids == {k \in Added : units'[k].parent = i}
    IN
    \* an attempt starts when the previous one is finalized and its cascade is over
    /\ v.execs # u.execs =>
         /\ v.execs = u.execs + 1 /\ u.execs = n
         /\ u.pc \in {"loop", "sleep"}
         /\ \A k \in Children(i) : units[k].pc = "done"
         /\ v.runs = u.runs /\ kids = {}
    \* a process exits only while it runs, with nothing of the attempt persisted yet
    /\ (u.pc = "wait" /\ v.pc # "wait") =>
         /\ v.pc = "finalize" /\ u.execs = n + 1
         /\ v.runs = u.runs /\ kids = {} /\ disk' = disk
    \* a run is persisted after its process (if any) is over, once per attempt
    /\ v.runs # u.runs =>
         /\ u.pc = "finalize" /\ v.pc = "barrier"
         /\ v.runs = Append(u.runs, v.jr) /\ u.execs = n + 1 /\ v.execs = u.execs
         /\ logDirOk => disk'[v.jr.Name] = Append(disk[v.jr.Name], Record(v.jr))
    \* the cascade of a run starts with the step that persists it, never before
    /\ kids # {} => Len(v.runs) = n + 1
    /\ disk' # disk => \E k \in JobUnits : units'[k].runs # units[k].runs

\* C14: within one retry-loop call the steps of successive attempts are strictly
\* ordered: the process of an attempt is over before its run is persisted, the
\* run is persisted before its cascade starts, and the next attempt starts only
\* after every dependent and webhook call of that cascade has finished; no two
\* attempts of one call overlap.
C14_AttemptsStrictlyOrdered ==
    [][\A i \in JobUnits : OrderedSteps(i)]_vars

C14_Witness ==
    \E p \in RetryUnits :
        /\ units[p].execs = 2 /\ units[p].pc = "wait" /\ Len(units[p].runs) = 1
        /\ \E k \in Children(p) : units[k].kind = "retry" /\ Len(units[k].runs) = 1
        /\ \E k \in Children(p) : units[k].kind = "slack"
        /\ \A k \in Children(p) : units[k].pc = "done"

\* q repeated n times
RECURSIVE Repeat(_, _)
Repeat(q, n) == IF n <= 0 THEN <<>> ELSE q \o Repeat(q, n - 1)

\* the number of runs among the first n of a sequence whose status is not 0
RECURSIVE Failures(_, _)
Failures(runs, n) ==
    IF n = 0 THEN 0
    ELSE Failures(runs, n - 1) + (IF runs[n].Status # 0 THEN 1 ELSE 0)

\* C15: finalize runs once after every attempt, not only after the last: a
\* retry-loop call that has finalized k failed attempts has fired the on_error
\* cascade k times, and then the on_success cascade once if an attempt
\* succeeded; when all R+1 attempts of a job with retries R fail, each job of
\* its on_error trigger lists has been dispatched R+1 times.
C15_FinalizeAfterEveryAttempt ==
    \A p \in RetryUnits :
        LET u == units[p]
            d == Def(p)
            n == Len(u.runs)
            k == Failures(u.runs, n)
            onErr == d.OnError.TriggerJob \o sched.OnError.TriggerJob
            onSucc == d.OnSuccess.TriggerJob \o sched.OnSuccess.TriggerJob
            fired == Targets(p, "retry", Len(units))
        IN
        /\ n <= u.execs /\ u.execs <= n + 1
        /\ u.pc \in {"loop", "barrier", "sleep", "done"} => n = u.execs
        /\ k \in {n - 1, n} /\ (k = n - 1 => u.runs[n].Status = 0)
        /\ fired = Repeat(onErr, k) \o (IF k < n THEN onSucc ELSE <<>>)
        /\ (u.pc = "done" /\ d.Retries >= 0 /\ AllFail(u)) =>
             /\ k = d.Retries + 1
             /\ \A name \in SeqToSet(onErr) :
                  Cardinality({c \in Children(p) :
                                 units[c].kind = "retry" /\ units[c].target = name})
                    = (d.Retries + 1)
                        * Cardinality({m \in 1..Len(onErr) : onErr[m] = name})

C15_Witness ==
    \E p \in RetryUnits :
        /\ units[p].pc = "done" /\ Def(p).Retries = 1 /\ AllFail(units[p])
        /\ Targets(p, "retry", Len(units)) = <<"c", "c">>
        /\ Targets(p, "slack", Len(units)) = <<"http://chat", "http://chat">>
        /\ units[p].runs[1].TriggeredBy = "cron"
        /\ units[p].runs[2].TriggeredBy = "cron[retry=1]"

\* C16: the retry loop takes the backoff sleep after a failed attempt only when
\* a further attempt remains: a call on a job with retries R >= 0 is never in a
\* backoff sleep with no attempt left, takes at most R sleeps, and has taken
\* exactly R when all R+1 attempts have failed and it has returned.
C16_BackoffOnlyBeforeRetry ==
    \A p \in RetryUnits :
        LET u == units[p]
            R == Def(p).Retries
        IN R >= 0 =>
             /\ u.pc = "sleep" => MoreTries(Def(p), u.tries)
             /\ u.sleeps <= R
             /\ (u.pc = "done" /\ AllFail(u)) => u.sleeps = R

\* the step unit i takes next is enabled
CanStep(i) ==
    CASE units[i].pc = "wait" -> ENABLED ProcExit(i)
      [] units[i].pc = "finalize" ->
           Len(units) + Len(Dispatched(i, JobOf(i), s, flushLogBuffer(units[i].jr)))
              <= MaxUnits => ENABLED Finalize(i)
      [] units[i].pc = "barrier" -> WaitGroupDone(i) => ENABLED WaitReturn(i)
      [] units[i].pc = "call" -> ENABLED WebhookCall(i)
      [] units[i].pc \in {"loop", "sleep"} ->
           units[i].job # Nil => (ENABLED ExecStart(i) \/ ENABLED Return(i))
      [] OTHER -> TRUE

\* C17: on a termination signal the Run loop exits without waiting for work in
\* flight: the signal is handled whatever is in flight, the step that stops the
\* loop leaves every dispatched execution as it is, the executions in flight
\* can still take their steps once the loop has stopped, and after the loop has
\* stopped no tick is handled and nothing is dispatched by the loop.
C17_StopLeavesWorkInFlight ==
    [][/\ (engine = "Running" /\ InFlight # {}) => ENABLED Signal
       /\ (engine = "Running" /\ engine' = "Stopped") =>
            units' = units /\ disk' = disk /\ ticks' = ticks
       /\ engine = "Stopped" =>
            /\ engine' # "Running" /\ ticks' = ticks
            /\ \A k \in Added : units'[k].parent # 0
            /\ \A i \in InFlight : CanStep(i)]_vars

C17_Witness ==
    /\ engine = "Stopped" /\ ticks < MaxTicks
    /\ \E i, k \in InFlight :
         /\ units[i].pc = "barrier" /\ units[i].tries >= 1
         /\ units[k].parent = i /\ units[k].pc = "wait" /\ CanStep(k)
    /\ \E i \in UnitIds : units[i].pc = "done"

\* C18: there is no single-instance guard: a tick starts one execution of every
\* job that is due on it, also of a job that has executions from an earlier tick
\* or from a cascade in flight, so two executions of one job can be in flight at
\* once; every execution of a job appends its runs to that job's one log.
C18_NoSingleInstanceGuard ==
    [][/\ ticks' # ticks =>
            /\ ticks' = ticks + 1
            /\ Len(units') = Len(units) + Cardinality(DueJobs(ticks))
            /\ \A j \in DueJobs(ticks) :
                 \E k \in Added : /\ units'[k].job = j /\ units'[k].trigger = "cron"
                                  /\ units'[k].pc = "loop" /\ units'[k].execs = 0
            /\ \A i \in UnitIds : units'[i] = units[i]
       /\ \A i \in JobUnits :
            units'[i].runs # units[i].runs =>
              disk' = logToDisk(disk, units'[i].jr, logDirOk)
       /\ logDirOk =>
            \A name \in DOMAIN disk : Len(disk'[name]) = Finalized(name, Len(units))']_vars

C18_Witness ==
    /\ logDirOk
    /\ \E i, k, m \in InFlight :
         /\ units[i].job = "b" /\ units[k].job = "b" /\ units[m].job = "b"
         /\ units[i].trigger = "cron" /\ units[k].trigger = "job[a]"
         /\ units[m].trigger = "cron" /\ k < m
         /\ units[i].pc = "wait" /\ units[k].pc = "sleep" /\ units[m].pc = "sleep"
    /\ Len(disk["b"]) = 2
    /\ disk["b"][1].TriggeredBy # disk["b"][2].TriggeredBy

\* C19: every attempt whose process was started and exited has its duration
\* recorded, whether the exit code is 0 or not: no finalized run, and no record
\* of the log, with an exit code as status carries the unset duration 0.
C19_DurationOnEveryExit ==
    /\ \A i \in JobUnits : \A k \in 1..Len(units[i].runs) :
         units[i].runs[k].Status # Sentinel => units[i].runs[k].Duration # 0
    /\ \A name \in DOMAIN disk : \A k \in 1..Len(disk[name]) :
         disk[name][k].Status # Sentinel => disk[name][k].Duration # 0

\* the edges of the trigger graph of a definition: from every job to every name
\* in its own and in the schedule's on_success and on_error trigger lists
Edges(sd) ==
    UNION { {<<j, n>> : n \in SeqToSet(triggerJobs(sd.Jobs[j]))
                          \cup SeqToSet(sd.OnSuccess.TriggerJob \o sd.OnError.TriggerJob)} :
            j \in DOMAIN sd.Jobs }

\* the pairs joined by a path of at most n + 1 edges
RECURSIVE Paths(_, _)
Paths(E, n) ==
    IF n = 0 THEN E
    ELSE LET P == Paths(E, n - 1)
         IN P \cup {<<z[1][1], z[2][2]>> : z \in {y \in P \X E : y[1][2] = y[2][1]}}

Acyclic(sd) == \A e \in Paths(Edges(sd), Len(JobOrder)) : e[1] # e[2]

\* an execution stopped by the model's unit count: its cascade has no room
Starved ==
    \E k \in JobUnits :
        /\ units[k].pc = "finalize"
        /\ Len(units) + Len(Dispatched(k, JobOf(k), s, flushLogBuffer(units[k].jr)))
             > MaxUnits

\* C20: for a definition whose trigger graph is acyclic (retry counts are
\* finite, and every process and webhook call ends), every retry-loop call,
\* with the cascades it awaits, eventually returns (unless the model's unit
\* count stops a cascade).
C20_AcyclicCascadesReturn ==
    \A i \in 1..MaxUnits :
        (i \in UnitIds /\ Acyclic(sched)) ~> ((i \in UnitIds /\ units[i].pc = "done") \/ Starved)
====
